---- MODULE Spec2Model ----
(***************************************************************************)
(* Process supervision of the Project Starter extension: the               *)
(* TerminalProvider (session map, restart records, crash backoff), the     *)
(* start/stop commands that drive it, and the host's terminal events.      *)
(*                                                                         *)
(* The host (VS Code) is the environment.  terminal.dispose() is a         *)
(* request to the host: the onDidCloseTerminal event for that terminal is  *)
(* delivered in a later turn of the event loop, never inside dispose().    *)
(* A terminal that the user or its process closes is reported by the same  *)
(* event.  setTimeout callbacks and prompt answers are separate turns.     *)
(*                                                                         *)
(* A vscode.Terminal is an opaque object of which the provider compares    *)
(* only the identity (info.terminal === closedTerminal).  Each terminal    *)
(* the host holds is a record, and the record carries the key under which  *)
(* the map this.terminals holds that very terminal ("" when no entry       *)
(* does), so that identity is never confused between two terminals that    *)
(* look alike.                                                             *)
(***************************************************************************)
EXTENDS Integers, Sequences, FiniteSets, Bags, TLC

\* ---------------------------------------------------------------- bounds
MaxSessions == 3      \* terminals the host holds at once (open or closing)
MaxOutcomes == 4      \* crash-handling outcomes remembered per key
MaxStartFlows == 1    \* start commands suspended at a gate at once
MaxStagger == 1       \* startups whose stagger timers are still pending
MaxStopPrompts == 1   \* shutdown confirmations pending at once
MaxProbes == 2        \* health probes in flight at once
MaxReports == 2       \* status reports of the health monitor remembered

\* ------------------------------------------------------------- constants
MaxRestarts == 3       \* terminalProvider.ts:171
BackoffUnit == 2000    \* terminalProvider.ts:177

Keys == {"Frontend", "Backend"}
Configs == {"cfgA", "cfgB"}

\* createTerminal's third argument at both call sites of startServers
TypeOf(k) == IF k = "Frontend" THEN "frontend" ELSE "backend"

\* the command startServers resolved for slot k under configuration c
CommandOf(c, k) ==
    IF c = "cfgA" THEN (IF k = "Frontend" THEN "feA" ELSE "beA")
                  ELSE (IF k = "Frontend" THEN "feB" ELSE "beB")

\* path.join(workspaceRoot, config.<slot>.path) under configuration c
DirOf(c, k) ==
    IF c = "cfgA" THEN (IF k = "Frontend" THEN "dirFA" ELSE "dirBA")
                  ELSE (IF k = "Frontend" THEN "dirFB" ELSE "dirBB")

\* absent entry of the lastCommands map
NoCmd == [command |-> "", cwd |-> "", type |-> ""]

VARIABLES
    sessions,            \* the host's terminals, with this.terminals in .key
    restartCounts,       \* Map<string, number>
    lastCommands,        \* Map<string, {command, cwd, type}>
    autoRestartEnabled,  \* boolean
    restartTimers,       \* pending backoff callbacks per key, oldest first
    startFlows,          \* bag of start commands suspended at an await
    stagger,             \* pending 500 ms / 1000 ms run timers, oldest first
    stopPrompts,         \* pending "Stop n running server(s)?" prompts
    crashOutcomes,       \* what handlePotentialCrash reported, per key
    interval,            \* HealthChecker.interval, with the ports it closes over
    probes,              \* bag of HealthChecker.check calls awaiting their ping
    resolving,           \* one command resolution: its inputs and its result
    stopNoted,           \* observer, see SpecNoting
    gateNoted,           \* observer, see SpecCommands
    reported,            \* observer, see SpecMonitor
    portHealth           \* whether each slot's port answers, see SpecLive

supVars == <<sessions, restartCounts, lastCommands, autoRestartEnabled,
             restartTimers, crashOutcomes>>
orchVars == <<startFlows, stagger, stopPrompts>>
monVars == <<interval, probes>>
vars == <<sessions, restartCounts, lastCommands, autoRestartEnabled,
          restartTimers, startFlows, stagger, stopPrompts, crashOutcomes,
          interval, probes, resolving, stopNoted, gateNoted, reported,
          portHealth>>

\* every port answers
AllAnswering == [t \in {"frontend", "backend"} |-> "answering"]

\* this.interval undefined
\* `live` counts the setInterval timers of the monitor alive in the host
NoInterval == [on |-> FALSE, frontendPort |-> 0, backendPort |-> 0, live |-> 0]

\* no command resolution under way
NotResolving == [stage |-> "idle"]

\* nothing noted about a gate
NoGate == [at |-> "", how |-> "", ignored |-> FALSE]

Init ==
    /\ sessions = EmptyBag
    /\ restartCounts = [k \in Keys |-> 0]
    /\ lastCommands = [k \in Keys |-> NoCmd]
    /\ autoRestartEnabled \in BOOLEAN
    /\ restartTimers = [k \in Keys |-> <<>>]
    /\ startFlows = EmptyBag
    /\ stagger = <<>>
    /\ stopPrompts = 0
    /\ crashOutcomes = [k \in Keys |-> <<>>]
    /\ interval = NoInterval
    /\ probes = EmptyBag
    /\ resolving = NotResolving
    /\ stopNoted = [k \in Keys |-> 0]
    /\ gateNoted = NoGate
    /\ reported = <<>>
    /\ portHealth = AllAnswering

\* ------------------------------------------------ the map this.terminals

Put(B, r) == B (+) SetToBag({r})
Take(B, r) == B (-) SetToBag({r})
Swap(B, old, new) == Put(Take(B, old), new)

\* this.terminals.has(name)
Has(B, name) == \E r \in BagToSet(B) : r.key = name

\* this.terminals.get(name).terminal
Get(B, name) == CHOOSE r \in BagToSet(B) : r.key = name

\* this.terminals.keys()
getActiveTerminals(B) == {k \in Keys : Has(B, k)}

\* a map whose delete does nothing
DeleteTerminal_keep(B, name) == B

\* this.terminals.delete(name)
DeleteTerminal(B, name) ==
    IF Has(B, name)
    THEN Swap(B, Get(B, name), [Get(B, name) EXCEPT !.key = ""])
    ELSE B

\* this.terminals.set(name, {terminal: r, ...}) for a terminal r of the host
SetTerminal(B, name, r) ==
    Swap(DeleteTerminal(B, name), r, [r EXCEPT !.key = name])

\* a disposeAll that does not clear the map
ClearTerminals_keep(B) == B

\* disposeAll, line 293: this.terminals.clear()
ClearTerminals(B) == DeleteTerminal(DeleteTerminal(B, "Frontend"), "Backend")

\* ------------------------------------------------ TerminalProvider (pure)

\* vscode.window.createTerminal({name, cwd}): a new terminal, in no map yet
OpenTerminal(name, cwd, type) ==
    [st |-> "open", name |-> name, cwd |-> cwd, type |-> type, by |-> "",
     ran |-> FALSE, key |-> ""]

\* terminal.dispose() on terminal r, requested by `who`: the terminal is
\* gone for the user, and the host still owes its close event
Dispose(B, r, who) ==
    Swap(B, r, [st |-> "disposed", name |-> "", cwd |-> "", type |-> "",
                by |-> who, ran |-> FALSE, key |-> r.key])

\* a createTerminal that leaves the existing terminal of that name alone
CloseExisting_keep(B, name) == B

\* createTerminal, lines 190-195: close the existing terminal of that name
CloseExisting(B, name) ==
    IF Has(B, name)
    THEN DeleteTerminal(Dispose(B, Get(B, name), "replace"), name)
    ELSE B

\* createTerminal(name, cwd, type): the host and the map after the call
createTerminal(B, name, cwd, type) ==
    SetTerminal(Put(CloseExisting(B, name), OpenTerminal(name, cwd, type)),
                name, OpenTerminal(name, cwd, type))

\* runCommand(terminalName, command): nothing when the name is not in the map
runCommand(B, L, name, command) ==
    IF ~Has(B, name)
    THEN [sessions |-> B, lastCommands |-> L]
    ELSE LET info == Get(B, name) IN
         [sessions |-> Swap(B, info, [info EXCEPT !.ran = TRUE]),
          lastCommands |-> [L EXCEPT ![name] =
              [command |-> command, cwd |-> info.cwd, type |-> info.type]]]

\* a disposeTerminal that keeps the restart record
ForgetCommand_keep(L, name) == L

\* disposeTerminal, line 283: this.lastCommands.delete(name)
ForgetCommand(L, name) == [L EXCEPT ![name] = NoCmd]

\* disposeAll, lines 290-292: info.terminal.dispose() for one entry
DisposeEntry(B, name) ==
    IF Has(B, name) THEN Dispose(B, Get(B, name), "stopAll") ELSE B

\* disposeAll, lines 290-292: the loop over the entries
DisposeEach(B) == DisposeEntry(DisposeEntry(B, "Frontend"), "Backend")

\* a supervisor that does not look at the auto-restart flag
RestartWanted_always(enabled, lastCmd) == lastCmd # NoCmd

\* handlePotentialCrash, lines 165-168: passing the two early returns
RestartWanted(enabled, lastCmd) == enabled /\ lastCmd # NoCmd

\* a supervisor that gives up one close too late
BudgetExhausted_late(count) == count > MaxRestarts

\* handlePotentialCrash, line 171
BudgetExhausted(count) == count >= MaxRestarts

\* a supervisor whose backoff does not grow with the crash count
RestartDelay_flat(count) == BackoffUnit

\* handlePotentialCrash, line 177
RestartDelay(count) == (count + 1) * BackoffUnit

\* handlePotentialCrash, line 180
NextCount(count) == count + 1

\* the first MaxOutcomes reports of handlePotentialCrash for a key are kept
Remember(log, entry) ==
    IF Len(log) < MaxOutcomes THEN Append(log, entry) ELSE log

\* the callback handed to setTimeout at line 182, with what it captured
Timer(lastCmd, delay) == [lastCmd |-> lastCmd, delay |-> delay]

\* handlePotentialCrash(name), run by the close handler after the map entry
\* of `name` was deleted
handlePotentialCrash(name) ==
    IF ~RestartWanted(autoRestartEnabled, lastCommands[name])
    THEN UNCHANGED <<restartCounts, restartTimers, crashOutcomes>>
    ELSE LET count == restartCounts[name] IN
         IF BudgetExhausted(count)
         THEN /\ crashOutcomes' = [crashOutcomes EXCEPT ![name] =
                     Remember(@, [kind |-> "max", delay |-> 0])]
              /\ UNCHANGED <<restartCounts, restartTimers>>
         ELSE /\ restartCounts' = [restartCounts EXCEPT ![name] =
                     NextCount(count)]
              /\ restartTimers' = [restartTimers EXCEPT ![name] =
                     Append(@, Timer(lastCommands[name],
                                     RestartDelay(count)))]
              /\ crashOutcomes' = [crashOutcomes EXCEPT ![name] =
                     Remember(@, [kind |-> "restart",
                                  delay |-> RestartDelay(count)])]

\* --------------------------------------------- TerminalProvider (actions)

\* the onDidCloseTerminal listener of the constructor, for closed terminal
\* r; the host forgets the terminal
onDidCloseTerminal(r) ==
    /\ IF r.key # ""
       THEN /\ sessions' = Take(DeleteTerminal(sessions, r.key),
                                [r EXCEPT !.key = ""])
            /\ handlePotentialCrash(r.key)
       ELSE /\ sessions' = Take(sessions, r)
            /\ UNCHANGED <<restartCounts, restartTimers, crashOutcomes>>
    /\ UNCHANGED <<lastCommands, autoRestartEnabled>>

\* the host reports that an open terminal closed (its process ended, or the
\* user closed it)
HostClose(r) ==
    /\ BagIn(r, sessions)
    /\ r.st = "open"
    /\ onDidCloseTerminal(r)
    /\ UNCHANGED orchVars

\* the host reports the close of a terminal the extension disposed
CloseDelivered(r) ==
    /\ BagIn(r, sessions)
    /\ r.st = "disposed"
    /\ onDidCloseTerminal(r)
    /\ UNCHANGED orchVars

\* the setTimeout callback of handlePotentialCrash, lines 182-186.  The
\* delays grow with the count, so the timers of one key fire oldest first.
RestartFire(name) ==
    /\ restartTimers[name] # <<>>
    /\ BagCardinality(sessions) < MaxSessions
    /\ LET lastCmd == Head(restartTimers[name]).lastCmd
           r == runCommand(createTerminal(sessions, name, lastCmd.cwd,
                                          lastCmd.type),
                           lastCommands, name, lastCmd.command)
       IN /\ sessions' = r.sessions
          /\ lastCommands' = r.lastCommands
    /\ restartTimers' = [restartTimers EXCEPT ![name] = Tail(@)]
    /\ UNCHANGED <<restartCounts, autoRestartEnabled, crashOutcomes>>
    /\ UNCHANGED orchVars

\* disposeTerminal(name)
disposeTerminal(name) ==
    /\ IF Has(sessions, name)
       THEN /\ lastCommands' = ForgetCommand(lastCommands, name)
            /\ sessions' = DeleteTerminal(
                   Dispose(sessions, Get(sessions, name), "stop"), name)
       ELSE UNCHANGED <<lastCommands, sessions>>
    /\ UNCHANGED <<restartCounts, autoRestartEnabled, restartTimers,
                   crashOutcomes>>
    /\ UNCHANGED orchVars

\* disposeAll()
disposeAll == sessions' = ClearTerminals(DisposeEach(sessions))

\* setAutoRestart(enabled)
setAutoRestart(enabled) == autoRestartEnabled' = enabled

\* --------------------------------------------------------- HealthChecker

\* how one http.get of ping can end
Outcomes == {"status200", "status500", "refused", "timeout"}

\* PortUtils.getPortForFramework(config.<slot>.framework, type) under
\* configuration c
PortOf(c, k) ==
    IF c = "cfgA" THEN (IF k = "Frontend" THEN 5173 ELSE 8080)
                  ELSE (IF k = "Frontend" THEN 3000 ELSE 8000)

\* a ping that takes only a 200 for an answer
ping_strict(outcome) == outcome = "status200"

\* a ping that takes any end for an answer
ping_always(outcome) == TRUE

\* ping(port): what the promise resolves to
ping(outcome) == outcome \in {"status200", "status500"}

\* check, line 53: the status handed to statusCallback
StatusOf(isResponding) == IF isResponding THEN "Running" ELSE "Crashed"

\* one call of check(port, type) awaiting its ping
Probe(type, port) == [type |-> type, port |-> port]

\* a stopMonitoring that leaves the interval running
stopMonitoring_keep(iv) == iv

\* stopMonitoring(): clearInterval(this.interval) and this.interval = null
stopMonitoring(iv) ==
    IF iv.on THEN [NoInterval EXCEPT !.live = iv.live - 1] ELSE iv

\* the two calls of check, lines 35-36 and 39-40
CheckBoth(P, frontendPort, backendPort) ==
    Put(Put(P, Probe("frontend", frontendPort)),
        Probe("backend", backendPort))

\* setInterval, lines 38-41
SetInterval(iv, frontendPort, backendPort) ==
    [on |-> TRUE, frontendPort |-> frontendPort, backendPort |-> backendPort,
     live |-> iv.live + 1]

\* startMonitoring(frontendPort, backendPort)
startMonitoring(frontendPort, backendPort) ==
    /\ BagCardinality(probes) + 2 <= MaxProbes
    /\ probes' = CheckBoth(probes, frontendPort, backendPort)
    /\ interval' = SetInterval(stopMonitoring(interval),
                                frontendPort, backendPort)

\* the setInterval callback, lines 38-41
Tick ==
    /\ interval.on
    /\ BagCardinality(probes) + 2 <= MaxProbes
    /\ probes' = CheckBoth(probes, interval.frontendPort,
                           interval.backendPort)
    /\ UNCHANGED interval
    /\ UNCHANGED <<supVars, orchVars>>

\* check, lines 52-53: the ping of probe p ends and statusCallback is called
ProbeDone(p) ==
    /\ BagIn(p, probes)
    /\ probes' = Take(probes, p)
    /\ UNCHANGED interval
    /\ UNCHANGED <<supVars, orchVars>>

\* what statusCallback is called with when the ping of probe p ends
Report(p, outcome) ==
    [type |-> p.type, outcome |-> outcome,
     status |-> StatusOf(ping(outcome)), on |-> interval.on]

\* startMonitoring called on the monitor
StartMonitoring(cfg) ==
    /\ startMonitoring(PortOf(cfg, "Frontend"), PortOf(cfg, "Backend"))
    /\ UNCHANGED <<supVars, orchVars>>

\* stopMonitoring called on the monitor
StopMonitoring ==
    /\ interval' = stopMonitoring(interval)
    /\ UNCHANGED probes
    /\ UNCHANGED <<supVars, orchVars>>

\* ------------------------------------------------- start command (gates)

PortChoices == {"Kill Process", "Ignore", "Cancel", "dismissed"}
DepChoices == {"Install Now", "Skip", "Cancel", "dismissed"}
StopChoices == {"Stop All", "Cancel", "dismissed"}

\* a checkPort that asks whatever the port's state
PortPrompt_always(isAvailable) == TRUE

\* checkPort, line 83: whether the port prompt is shown
PortPrompt(isAvailable) == ~isAvailable

\* a checkPort that goes on after Cancel
checkPort_deaf(isAvailable, selection, killed) ==
    IF ~isAvailable /\ selection = "Kill Process" THEN killed
    ELSE isAvailable \/ selection # "dismissed"

\* checkPort of startServers: whether startup goes on
checkPort(isAvailable, selection, killed) ==
    IF PortPrompt(isAvailable)
    THEN IF selection = "Kill Process" THEN killed
         ELSE IF selection = "Cancel" \/ selection = "dismissed" THEN FALSE
         ELSE TRUE
    ELSE TRUE

\* a checkDeps that takes a dismissed prompt for Skip
checkDeps_strict(hasDeps, selection) ==
    hasDeps \/ selection = "Skip" \/ selection = "dismissed"

\* checkDeps of startServers: whether startup goes on
checkDeps(hasDeps, selection) ==
    IF ~hasDeps
    THEN IF selection = "Install Now" THEN FALSE
         ELSE IF selection = "Cancel" \/ selection = "dismissed" THEN FALSE
         ELSE TRUE
    ELSE TRUE

\* checkDeps, lines 126-129: the terminal the install command is sent to,
\* created on the host and never handed to the provider
InstallTerminal ==
    [st |-> "open", name |-> "Install", cwd |-> "", type |-> "",
     by |-> "", ran |-> TRUE, key |-> ""]

\* a checkDeps that opens no terminal for the install command
InstallNow_none(B, hasDeps, selection) == B

\* checkDeps, lines 124-129: the host's terminals after the prompt
InstallNow(B, hasDeps, selection) ==
    IF ~hasDeps /\ selection = "Install Now"
    THEN Put(B, InstallTerminal)
    ELSE B

Flow(pc, cfg) == [pc |-> pc, cfg |-> cfg]

\* the projectStarter.start command after `await startServers`, lines 73-85
AfterStartServers(cfg) ==
    startMonitoring(PortOf(cfg, "Frontend"), PortOf(cfg, "Backend"))

\* the projectStarter.start command up to the first await of startServers,
\* and to its end when startServers returns without awaiting
StartCmd(autoRestart, cfg, configured, workspace) ==
    /\ setAutoRestart(autoRestart)
    /\ IF ~configured
       THEN /\ BagCardinality(startFlows) < MaxStartFlows
            /\ startFlows' = Put(startFlows, Flow("configure", cfg))
            /\ UNCHANGED monVars
       ELSE IF ~workspace
       THEN /\ UNCHANGED startFlows
            /\ AfterStartServers(cfg)
       ELSE /\ BagCardinality(startFlows) < MaxStartFlows
            /\ startFlows' = Put(startFlows, Flow("portF", cfg))
            /\ UNCHANGED monVars
    /\ UNCHANGED <<sessions, restartCounts, lastCommands, restartTimers,
                   crashOutcomes, stagger, stopPrompts>>

\* the "Project not configured" prompt is answered; startServers returns
ConfigureAnswered(fl) ==
    /\ fl.pc = "configure"
    /\ BagIn(fl, startFlows)
    /\ startFlows' = Take(startFlows, fl)
    /\ AfterStartServers(fl.cfg)
    /\ UNCHANGED supVars
    /\ UNCHANGED <<stagger, stopPrompts>>

\* a gate that lets startup go on whatever its check returns
Gate_on(fl, at, next, pass) ==
    /\ fl.pc = at
    /\ BagIn(fl, startFlows)
    /\ startFlows' = Swap(startFlows, fl, Flow(next, fl.cfg))
    /\ UNCHANGED monVars
    /\ UNCHANGED <<restartCounts, lastCommands, autoRestartEnabled,
                   restartTimers, crashOutcomes, stagger, stopPrompts>>

\* one gate of startServers: go on to pc `next`, or return
Gate(fl, at, next, pass) ==
    /\ fl.pc = at
    /\ BagIn(fl, startFlows)
    /\ IF pass
       THEN /\ startFlows' = Swap(startFlows, fl, Flow(next, fl.cfg))
            /\ UNCHANGED monVars
       ELSE /\ startFlows' = Take(startFlows, fl)
            /\ AfterStartServers(fl.cfg)
    /\ UNCHANGED <<restartCounts, lastCommands, autoRestartEnabled,
                   restartTimers, crashOutcomes, stagger, stopPrompts>>

PortGateFrontend(fl, isAvailable, selection, killed) ==
    /\ Gate(fl, "portF", "portB", checkPort(isAvailable, selection, killed))
    /\ UNCHANGED sessions

PortGateBackend(fl, isAvailable, selection, killed) ==
    /\ Gate(fl, "portB", "depF", checkPort(isAvailable, selection, killed))
    /\ UNCHANGED sessions

DepGateFrontend(fl, hasDeps, selection) ==
    /\ Gate(fl, "depF", "depB", checkDeps(hasDeps, selection))
    /\ BagCardinality(InstallNow(sessions, hasDeps, selection)) <= MaxSessions
    /\ sessions' = InstallNow(sessions, hasDeps, selection)

\* startServers, lines 147-172: both terminals, then the two run timers
Spawn(cfg) ==
    /\ BagCardinality(sessions) + 2 <= MaxSessions
    /\ Len(stagger) < MaxStagger
    /\ sessions' = createTerminal(
           createTerminal(sessions, "Frontend", DirOf(cfg, "Frontend"),
                          TypeOf("Frontend")),
           "Backend", DirOf(cfg, "Backend"), TypeOf("Backend"))
    /\ stagger' = Append(stagger, [cfg |-> cfg, frontendPending |-> TRUE])

\* the backend dependency gate and, when it passes, the rest of startServers
DepGateBackend(fl, hasDeps, selection) ==
    /\ fl.pc = "depB"
    /\ BagIn(fl, startFlows)
    /\ startFlows' = Take(startFlows, fl)
    /\ IF checkDeps(hasDeps, selection)
       THEN Spawn(fl.cfg)
       ELSE /\ BagCardinality(InstallNow(sessions, hasDeps, selection))
                  <= MaxSessions
            /\ sessions' = InstallNow(sessions, hasDeps, selection)
            /\ UNCHANGED stagger
    /\ AfterStartServers(fl.cfg)
    /\ UNCHANGED <<restartCounts, lastCommands, autoRestartEnabled,
                   restartTimers, crashOutcomes, stopPrompts>>

\* the delays of the two run timers of startServers, in milliseconds
FrontendDelay == 500

\* a backend timer set to fire before the frontend's
BackendDelay_early == FrontendDelay - 100

BackendDelay == 1000

\* the 500 ms timer of startServers.  Timers of successive startups fire in
\* the order they were set.
RunFrontendTimer(i) ==
    /\ i \in 1..Len(stagger)
    /\ stagger[i].frontendPending
    /\ \A j \in 1..(i - 1) : ~stagger[j].frontendPending
    /\ LET r == runCommand(sessions, lastCommands, "Frontend",
                           CommandOf(stagger[i].cfg, "Frontend"))
       IN /\ sessions' = r.sessions
          /\ lastCommands' = r.lastCommands
    /\ stagger' = [stagger EXCEPT ![i].frontendPending = FALSE]
    /\ UNCHANGED <<restartCounts, autoRestartEnabled, restartTimers,
                   crashOutcomes, startFlows, stopPrompts>>
    /\ UNCHANGED monVars

\* the 1000 ms timer of startServers, after the 500 ms one of its startup
RunBackendTimer ==
    /\ stagger # <<>>
    /\ FrontendDelay < BackendDelay => ~Head(stagger).frontendPending
    /\ LET r == runCommand(sessions, lastCommands, "Backend",
                           CommandOf(Head(stagger).cfg, "Backend"))
       IN /\ sessions' = r.sessions
          /\ lastCommands' = r.lastCommands
    /\ stagger' = Tail(stagger)
    /\ UNCHANGED <<restartCounts, autoRestartEnabled, restartTimers,
                   crashOutcomes, startFlows, stopPrompts>>
    /\ UNCHANGED monVars

\* -------------------------------------------------------- stop command

\* the projectStarter.stop command: stopServers up to its confirmation,
\* then stopMonitoring, extension.ts lines 89-90
StopCmd ==
    /\ IF getActiveTerminals(sessions) = {}
       THEN UNCHANGED stopPrompts
       ELSE /\ stopPrompts < MaxStopPrompts
            /\ stopPrompts' = stopPrompts + 1
    /\ interval' = stopMonitoring(interval)
    /\ UNCHANGED probes
    /\ UNCHANGED supVars
    /\ UNCHANGED <<startFlows, stagger>>

\* the confirmation is answered, stopServers lines 18-21
StopAnswered(confirm) ==
    /\ stopPrompts > 0
    /\ stopPrompts' = stopPrompts - 1
    /\ IF confirm = "Stop All"
       THEN disposeAll
       ELSE UNCHANGED sessions
    /\ UNCHANGED <<restartCounts, lastCommands, autoRestartEnabled,
                   restartTimers, crashOutcomes, startFlows, stagger>>
    /\ UNCHANGED monVars

\* ------------------------------------------- the provider's operations

\* createTerminal(name, cwd, type) called on the provider
Start(name, cfg) ==
    /\ BagCardinality(sessions) < MaxSessions
    /\ sessions' = createTerminal(sessions, name, DirOf(cfg, name),
                                  TypeOf(name))
    /\ UNCHANGED <<restartCounts, lastCommands, autoRestartEnabled,
                   restartTimers, crashOutcomes>>
    /\ UNCHANGED orchVars

\* runCommand(terminalName, command) called on the provider
Run(name, cfg) ==
    /\ LET r == runCommand(sessions, lastCommands, name,
                           CommandOf(cfg, name))
       IN /\ sessions' = r.sessions
          /\ lastCommands' = r.lastCommands
    /\ UNCHANGED <<restartCounts, autoRestartEnabled, restartTimers,
                   crashOutcomes>>
    /\ UNCHANGED orchVars

\* disposeAll() called on the provider
StopAll ==
    /\ disposeAll
    /\ UNCHANGED <<restartCounts, lastCommands, autoRestartEnabled,
                   restartTimers, crashOutcomes>>
    /\ UNCHANGED orchVars

\* setAutoRestart(enabled) called on the provider
SetAutoRestart(enabled) ==
    /\ setAutoRestart(enabled)
    /\ UNCHANGED <<sessions, restartCounts, lastCommands, restartTimers,
                   crashOutcomes>>
    /\ UNCHANGED orchVars

\* ------------------------------------------------------------------ Next

\* configurations the provider-level specification draws from
CoreConfigs == {"cfgA"}

\* what the provider's operations and the host's terminal events leave alone
offstage == <<interval, probes, resolving, gateNoted, reported, portHealth>>

\* The provider driven through its public operations, the host's close
\* events and the backoff timers.
Next ==
    \/ \E name \in Keys, cfg \in CoreConfigs :
          Start(name, cfg) /\ UNCHANGED <<stopNoted, offstage>>
    \/ \E name \in Keys, cfg \in CoreConfigs :
          Run(name, cfg) /\ UNCHANGED <<stopNoted, offstage>>
    \/ \E enabled \in BOOLEAN :
          SetAutoRestart(enabled) /\ UNCHANGED <<stopNoted, offstage>>
    \/ \E r \in BagToSet(sessions) : HostClose(r) /\ UNCHANGED <<stopNoted, offstage>>
    \/ \E r \in BagToSet(sessions) : CloseDelivered(r) /\ UNCHANGED <<stopNoted, offstage>>
    \/ \E name \in Keys : disposeTerminal(name) /\ UNCHANGED <<stopNoted, offstage>>
    \/ StopAll /\ UNCHANGED <<stopNoted, offstage>>
    \/ \E name \in Keys : RestartFire(name) /\ UNCHANGED <<stopNoted, offstage>>

Spec == Init /\ [][Next]_vars

\* The same behaviours with an observer: stopNoted[k] counts the oldest
\* pending backoff timers of k that were already pending when
\* disposeTerminal(k) or disposeAll() was last called.
NextNoting ==
    \/ \E name \in Keys, cfg \in CoreConfigs :
          Start(name, cfg) /\ UNCHANGED <<stopNoted, offstage>>
    \/ \E name \in Keys, cfg \in CoreConfigs :
          Run(name, cfg) /\ UNCHANGED <<stopNoted, offstage>>
    \/ \E enabled \in BOOLEAN :
          SetAutoRestart(enabled) /\ UNCHANGED <<stopNoted, offstage>>
    \/ \E r \in BagToSet(sessions) : HostClose(r) /\ UNCHANGED <<stopNoted, offstage>>
    \/ \E r \in BagToSet(sessions) : CloseDelivered(r) /\ UNCHANGED <<stopNoted, offstage>>
    \/ \E name \in Keys :
          /\ disposeTerminal(name)
          /\ stopNoted' = [stopNoted EXCEPT ![name] = Len(restartTimers[name])]
          /\ UNCHANGED offstage
    \/ /\ StopAll
       /\ stopNoted' = [k \in Keys |-> Len(restartTimers[k])]
       /\ UNCHANGED offstage
    \/ \E name \in Keys :
          /\ RestartFire(name)
          /\ stopNoted' = [stopNoted EXCEPT ![name] =
                              IF @ > 0 THEN @ - 1 ELSE 0]
          /\ UNCHANGED offstage

SpecNoting == Init /\ [][NextNoting]_vars

\* the auto-restart settings the start command is given in SpecCommands
CommandsAutoRestart == {FALSE}

\* what the start and stop commands leave alone
backstage == <<resolving, stopNoted, reported, portHealth>>

\* a note about something other than a gate of startServers
Note(at, how) == [at |-> at, how |-> how, ignored |-> FALSE]

\* how a port gate ended, and whether this startup has ignored a conflict
PortNote(at, isAvailable, selection, killed) ==
    LET how == IF ~PortPrompt(isAvailable) THEN "free"
               ELSE IF selection # "Kill Process" THEN selection
               ELSE IF killed THEN "killed" ELSE "not killed"
    IN [at |-> at, how |-> how,
        ignored |-> gateNoted.ignored \/ how = "Ignore"]

\* how a dependency gate ended
DepNote(at, hasDeps, selection) ==
    [at |-> at, how |-> IF hasDeps THEN "present" ELSE selection,
     ignored |-> gateNoted.ignored]

\* The extension driven through its start and stop commands: the gates of
\* startServers, the two run timers, the stop confirmation, the health
\* monitor's interval and probes, and the host's close events.  The observer
\* gateNoted holds how the gate passed last ended.
NextCommands ==
    \/ \E autoRestart \in CommandsAutoRestart, cfg \in CoreConfigs,
          configured \in BOOLEAN, workspace \in BOOLEAN :
          /\ StartCmd(autoRestart, cfg, configured, workspace)
          /\ gateNoted' = IF ~configured THEN NoGate
                          ELSE IF ~workspace
                          THEN Note("workspace", "none")
                          ELSE NoGate
          /\ UNCHANGED backstage
    \/ \E fl \in BagToSet(startFlows) :
          /\ ConfigureAnswered(fl)
          /\ gateNoted' = Note("configure", "answered")
          /\ UNCHANGED backstage
    \/ \E fl \in BagToSet(startFlows), isAvailable \in BOOLEAN,
          selection \in PortChoices, killed \in BOOLEAN :
          /\ PortGateFrontend(fl, isAvailable, selection, killed)
          /\ gateNoted' = PortNote("portF", isAvailable, selection, killed)
          /\ UNCHANGED backstage
    \/ \E fl \in BagToSet(startFlows), isAvailable \in BOOLEAN,
          selection \in PortChoices, killed \in BOOLEAN :
          /\ PortGateBackend(fl, isAvailable, selection, killed)
          /\ gateNoted' = PortNote("portB", isAvailable, selection, killed)
          /\ UNCHANGED backstage
    \/ \E fl \in BagToSet(startFlows), hasDeps \in BOOLEAN,
          selection \in DepChoices :
          /\ DepGateFrontend(fl, hasDeps, selection)
          /\ gateNoted' = DepNote("depF", hasDeps, selection)
          /\ UNCHANGED backstage
    \/ \E fl \in BagToSet(startFlows), hasDeps \in BOOLEAN,
          selection \in DepChoices :
          /\ DepGateBackend(fl, hasDeps, selection)
          /\ gateNoted' = DepNote("depB", hasDeps, selection)
          /\ UNCHANGED backstage
    \/ \E i \in 1..Len(stagger) :
          RunFrontendTimer(i) /\ UNCHANGED <<gateNoted, backstage>>
    \/ RunBackendTimer /\ UNCHANGED <<gateNoted, backstage>>
    \/ /\ StopCmd
       /\ gateNoted' = Note("stop", "asked")
       /\ UNCHANGED backstage
    \/ \E confirm \in StopChoices :
          /\ StopAnswered(confirm)
          /\ gateNoted' = Note("stop", confirm)
          /\ UNCHANGED backstage
    \/ \E r \in BagToSet(sessions) :
          HostClose(r) /\ UNCHANGED <<monVars, gateNoted, backstage>>
    \/ \E r \in BagToSet(sessions) :
          CloseDelivered(r) /\ UNCHANGED <<monVars, gateNoted, backstage>>
    \/ Tick /\ UNCHANGED <<gateNoted, backstage>>
    \/ \E p \in BagToSet(probes) :
          ProbeDone(p) /\ UNCHANGED <<gateNoted, backstage>>

InitCommands == Init /\ autoRestartEnabled \in CommandsAutoRestart

SpecCommands == InitCommands /\ [][NextCommands]_vars

\* ----------------------------------------------------- the monitor alone

\* the first MaxReports calls of statusCallback are kept
Noted(log, entry) ==
    IF Len(log) < MaxReports THEN Append(log, entry) ELSE log

\* The health monitor driven through startMonitoring and stopMonitoring, its
\* interval and the ends of its pings.  The observer `reported` holds what
\* statusCallback was called with, and whether the interval was set then.
NextMonitor ==
    \/ \E cfg \in Configs :
          StartMonitoring(cfg)
              /\ UNCHANGED <<resolving, stopNoted, gateNoted, reported, portHealth>>
    \/ StopMonitoring /\ UNCHANGED <<resolving, stopNoted, gateNoted, reported, portHealth>>
    \/ Tick /\ UNCHANGED <<resolving, stopNoted, gateNoted, reported, portHealth>>
    \/ \E p \in BagToSet(probes), outcome \in Outcomes :
          /\ ProbeDone(p)
          /\ reported' = Noted(reported, Report(p, outcome))
          /\ UNCHANGED <<resolving, stopNoted, gateNoted, portHealth>>

SpecMonitor == Init /\ [][NextMonitor]_vars

\* ------------------------------------------------- the command of a slot

Frameworks == {"custom", "react-vite", "django", "other", "constructor"}
Types == {"frontend", "backend"}
ProfileCommands == {"", "npm run staging"}
CustomCommands == {"", "make serve"}

\* What indexing a command table gives that is not one of its commands: ""
\* is undefined, ObjectMember is a member the table, an object literal,
\* inherits from Object.prototype (a function, not a string).
ObjectMember == "[Function: Object]"
InheritedKeys == {"constructor"}

\* the own keys of FRONTEND_COMMANDS / BACKEND_COMMANDS
TableKeys(type) ==
    IF type = "frontend" THEN {"react-vite"} ELSE {"django"}

\* commands[framework], line 157
TableLookup(framework, type) ==
    IF framework \in TableKeys(type)
    THEN (IF type = "frontend" THEN "npm run dev"
                               ELSE "python manage.py runserver")
    ELSE IF framework \in InheritedKeys THEN ObjectMember
    ELSE ""

\* commands[framework] || 'npm start', line 157
DefaultCommand(framework, type) ==
    IF TableLookup(framework, type) # ""
    THEN TableLookup(framework, type)
    ELSE "npm start"

\* getStartCommand(framework, type, customCommand)
getStartCommand(framework, type, customCommand) ==
    IF framework = "custom" /\ customCommand # ""
    THEN customCommand
    ELSE DefaultCommand(framework, type)

\* DockerUtils.getDockerCommand(folderPath); "" is null
getDockerCommand(hasDockerCompose, hasDockerfile) ==
    IF hasDockerCompose THEN "docker-compose up"
    ELSE IF hasDockerfile THEN "docker build && docker run"
    ELSE ""

\* startServers, lines 50-60: the active profile's command for the slot
ProfileOverride(command, profile) ==
    IF profile # "" THEN profile ELSE command

\* startServers, lines 63-75: the Docker command for the slot
DockerOverride(command, useDocker, dockerCmd) ==
    IF useDocker /\ dockerCmd # "" THEN dockerCmd ELSE command

\* startServers, lines 46-75: the command run for a slot
ResolveCommand(in) ==
    DockerOverride(
        ProfileOverride(
            getStartCommand(in.framework, in.type, in.customCommand),
            in.profile),
        in.useDocker,
        getDockerCommand(in.hasDockerCompose, in.hasDockerfile))

ResolveInputs ==
    [framework : Frameworks, type : Types, customCommand : CustomCommands,
     profile : ProfileCommands, useDocker : BOOLEAN,
     hasDockerCompose : BOOLEAN, hasDockerfile : BOOLEAN]

InitResolve ==
    /\ sessions = EmptyBag
    /\ restartCounts = [k \in Keys |-> 0]
    /\ lastCommands = [k \in Keys |-> NoCmd]
    /\ autoRestartEnabled = FALSE
    /\ restartTimers = [k \in Keys |-> <<>>]
    /\ startFlows = EmptyBag
    /\ stagger = <<>>
    /\ stopPrompts = 0
    /\ crashOutcomes = [k \in Keys |-> <<>>]
    /\ interval = NoInterval
    /\ probes = EmptyBag
    /\ \E in \in ResolveInputs : resolving = [stage |-> "asked", in |-> in]
    /\ stopNoted = [k \in Keys |-> 0]
    /\ gateNoted = NoGate
    /\ reported = <<>>
    /\ portHealth = AllAnswering

\* startServers resolves the command of one slot
Resolve ==
    /\ resolving.stage = "asked"
    /\ resolving' = [stage |-> "resolved", in |-> resolving.in,
                     startCommand |-> getStartCommand(resolving.in.framework,
                                                      resolving.in.type,
                                                      resolving.in.customCommand),
                     command |-> ResolveCommand(resolving.in)]
    /\ UNCHANGED <<supVars, orchVars, monVars, stopNoted, gateNoted, reported,
                   portHealth>>

SpecResolve == InitResolve /\ [][Resolve]_vars

TypeOK ==
    /\ BagCardinality(sessions) <= MaxSessions
    /\ restartCounts \in [Keys -> 0..MaxRestarts]
    /\ autoRestartEnabled \in BOOLEAN
    /\ stopPrompts \in 0..MaxStopPrompts
    /\ \A k \in Keys : Len(restartTimers[k]) <= MaxRestarts
    /\ BagCardinality(probes) <= MaxProbes
    /\ interval.on \in BOOLEAN
    /\ Len(reported) <= MaxReports

\* ================================================================ claims

\* how many terminals of bag B satisfy P
Count(B, P(_)) ==
    BagCardinality([r \in {x \in BagToSet(B) : P(x)} |-> CopiesIn(r, B)])

\* open terminals created under name k
OpenCount(B, k) ==
    LET P(r) == r.st = "open" /\ r.name = k IN Count(B, P)

\* disposed terminals whose close event is still owed, by who disposed them
DisposedBy(B, who) ==
    LET P(r) == r.st = "disposed" /\ r.by = who IN Count(B, P)

Restarting(ms) == [kind |-> "restart", delay |-> ms]
GivingUp == [kind |-> "max", delay |-> 0]

\* ---- C1
C1_State ==
    \A k \in Keys :
        /\ \A i \in 1..Len(crashOutcomes[k]) :
              crashOutcomes[k][i] =
                  IF i = 1 THEN Restarting(2000)
                  ELSE IF i = 2 THEN Restarting(4000)
                  ELSE IF i = 3 THEN Restarting(6000)
                  ELSE GivingUp
        /\ restartCounts[k] =
              IF Len(crashOutcomes[k]) < 3 THEN Len(crashOutcomes[k]) ELSE 3

C1_Step ==
    \A k \in Keys :
        LET n == Len(crashOutcomes'[k]) IN
        IF n = Len(crashOutcomes[k]) + 1
        THEN IF n <= 3
             THEN /\ Len(restartTimers'[k]) = Len(restartTimers[k]) + 1
                  /\ restartTimers'[k][Len(restartTimers'[k])].delay = n * 2000
             ELSE restartTimers'[k] = restartTimers[k]
        ELSE Len(restartTimers'[k]) <= Len(restartTimers[k])

\* C1: with auto-restart enabled and a restart record for a key, the first,
\* second and third closes of the key's session that the host reports
\* schedule a restart after 2000, 4000 and 6000 ms in that order; the
\* fourth is answered by the failure notification and schedules nothing.
C1_CrashBudget == [](C1_State) /\ [][C1_Step]_vars

\* all three restarts of Frontend have run and the fourth close was given up
C1_Witness ==
    /\ crashOutcomes["Frontend"] =
          <<Restarting(2000), Restarting(4000), Restarting(6000), GivingUp>>
    /\ restartTimers["Frontend"] = <<>>
    /\ ~Has(sessions, "Frontend")

\* ---- C2
C2_Stop ==
    \A k \in Keys :
        (disposeTerminal(k) /\ Has(sessions, k)) =>
            /\ ~Has(sessions', k)
            /\ OpenCount(sessions', k) = 0
            /\ DisposedBy(sessions', "stop") = DisposedBy(sessions, "stop") + 1
            /\ lastCommands'[k] = NoCmd

C2_Close ==
    \A r \in BagToSet(sessions) :
        (CloseDelivered(r) /\ r.by = "stop") =>
            /\ sessions' = Take(sessions, r)
            /\ restartTimers' = restartTimers
            /\ restartCounts' = restartCounts
            /\ crashOutcomes' = crashOutcomes

C2_State ==
    \A r \in BagToSet(sessions) :
        (r.st = "disposed" /\ r.by = "stop") => r.key = ""

\* C2: disposeTerminal on a key that has a session disposes the session's
\* terminal, takes the key out of the map and deletes the key's restart
\* record; the close the host then reports for that terminal schedules no
\* restart and creates no session.
C2_StopIsFinal == [](C2_State) /\ [][C2_Stop /\ C2_Close]_vars

\* auto-restart is on, a stopped terminal's close is still owed, and no
\* restart record or timer is left
C2_Witness ==
    /\ autoRestartEnabled
    /\ DisposedBy(sessions, "stop") = 1
    /\ getActiveTerminals(sessions) = {}
    /\ \A k \in Keys : lastCommands[k] = NoCmd /\ restartTimers[k] = <<>>

\* ---- C3
C3_Close ==
    \A r \in BagToSet(sessions) :
        (/\ HostClose(r)
         /\ r.key # ""
         /\ (~autoRestartEnabled \/ lastCommands[r.key] = NoCmd)) =>
            /\ ~Has(sessions', r.key)
            /\ BagCardinality(sessions') = BagCardinality(sessions) - 1
            /\ restartTimers' = restartTimers
            /\ restartCounts' = restartCounts
            /\ crashOutcomes' = crashOutcomes

\* C3: when auto-restart is off, or the key has no restart record, a close
\* the host reports for the key's session takes the key out of the map,
\* schedules no restart, creates no session and leaves the crash count as
\* it was.
C3_NoRestartWithoutRecordOrFlag == [][C3_Close]_vars

\* auto-restart is off, Frontend's command was run and its session is
\* gone, with nothing counted or scheduled
C3_Witness ==
    /\ ~autoRestartEnabled
    /\ lastCommands["Frontend"] # NoCmd
    /\ sessions = EmptyBag
    /\ \A k \in Keys : /\ restartCounts[k] = 0
                       /\ restartTimers[k] = <<>>
                       /\ crashOutcomes[k] = <<>>

\* ---- C4
C4_StopAll ==
    StopAll =>
        /\ getActiveTerminals(sessions') = {}
        /\ \A k \in Keys : OpenCount(sessions', k) = 0
        /\ DisposedBy(sessions', "stopAll") =
              DisposedBy(sessions, "stopAll")
                  + Cardinality(getActiveTerminals(sessions))
        /\ lastCommands' = lastCommands

C4_Close ==
    \A r \in BagToSet(sessions) :
        (CloseDelivered(r) /\ r.by = "stopAll") =>
            /\ sessions' = Take(sessions, r)
            /\ restartTimers' = restartTimers
            /\ restartCounts' = restartCounts
            /\ crashOutcomes' = crashOutcomes

\* C4: disposeAll disposes every session of the map and empties the map
\* but keeps the restart records; the closes the host then reports for
\* those terminals schedule no restart and increment no crash count.
C4_StopAllIsQuiet == [][C4_StopAll /\ C4_Close]_vars

\* both sessions were disposed by disposeAll with auto-restart on and both
\* restart records in place, and their closes are still owed
C4_Witness ==
    /\ autoRestartEnabled
    /\ DisposedBy(sessions, "stopAll") = 2
    /\ getActiveTerminals(sessions) = {}
    /\ \A k \in Keys : lastCommands[k] # NoCmd /\ restartTimers[k] = <<>>

\* ---- C5
\* C5: a backoff callback that fires after disposeTerminal of its key, or
\* after disposeAll, creates no session and sends no command.
C5_StopCancelsPendingRestart ==
    [][\A k \in Keys :
          (RestartFire(k) /\ stopNoted[k] > 0) => sessions' = sessions]_vars

\* ---- C6
\* C6: a backoff callback that fires after auto-restart was switched off
\* creates no session.
C6_DisableCancelsPendingRestart ==
    [][\A k \in Keys :
          (RestartFire(k) /\ ~autoRestartEnabled) =>
              BagCardinality(sessions') <= BagCardinality(sessions)]_vars

\* ---- C7
C7_State ==
    /\ \A k \in Keys : OpenCount(sessions, k) <= 1
    /\ \A r \in BagToSet(sessions) : r.st = "open" => r.key = r.name

C7_Start ==
    \A k \in Keys, cfg \in CoreConfigs :
        (Start(k, cfg) /\ Has(sessions, k)) =>
            /\ Has(sessions', k)
            /\ Get(sessions', k).st = "open"
            /\ OpenCount(sessions', k) = 1
            /\ DisposedBy(sessions', "replace") =
                  DisposedBy(sessions, "replace") + 1

\* C7: every key has at most one session at any time; createTerminal on a
\* key that has one disposes it and then registers the new one, so two
\* createTerminal calls in a row leave one session under the key and the
\* first one disposed.
C7_OneSessionPerKey == [](C7_State) /\ [][C7_Start]_vars

\* Frontend was created twice with no command run: one open session under
\* the key, the replaced terminal disposed
C7_Witness ==
    /\ Has(sessions, "Frontend")
    /\ ~Get(sessions, "Frontend").ran
    /\ OpenCount(sessions, "Frontend") = 1
    /\ DisposedBy(sessions, "replace") = 1
    /\ BagCardinality(sessions) = 2
    /\ \A k \in Keys : lastCommands[k] = NoCmd

\* ---- C8
C8_State == \A k \in Keys : restartCounts[k] \in 0..3

C8_Step ==
    \A k \in Keys :
        /\ restartCounts'[k] >= restartCounts[k]
        /\ RestartFire(k) => restartCounts'[k] = restartCounts[k]
        /\ Len(restartTimers'[k]) > Len(restartTimers[k]) =>
              restartCounts'[k] = restartCounts[k] + 1

\* C8: a key's crash count stays within 0..3 and never decreases; a
\* restart that runs leaves it unchanged, and every restart that is
\* scheduled adds one to it, so at most three are scheduled per key.
C8_CountBounded == [](C8_State) /\ [][C8_Step]_vars

\* the third restart of Frontend has run and the count is still three
C8_Witness ==
    /\ restartCounts["Frontend"] = 3
    /\ restartTimers["Frontend"] = <<>>
    /\ Has(sessions, "Frontend")
    /\ Get(sessions, "Frontend").ran
    /\ Len(crashOutcomes["Frontend"]) = 3

\* ---- C9
\* C9: disposeTerminal of a key sets the key's crash count to 0.
C9_StopResetsCount ==
    [][\A k \in Keys :
          (disposeTerminal(k) /\ Has(sessions, k)) => restartCounts'[k] = 0]_vars

\* ---- C10
\* C10: switching auto-restart off sets every key's crash count to 0.
C10_DisableResetsCounts ==
    [][(autoRestartEnabled /\ ~autoRestartEnabled') =>
          \A k \in Keys : restartCounts'[k] = 0]_vars

\* ---- C11
\* C11: the command run for a slot is the active profile's override when
\* that is non-empty, even with Docker mode on and a Docker command
\* available; otherwise the Docker command when Docker mode is on and the
\* directory has a compose file or a Dockerfile, the compose file winning;
\* otherwise the custom command when the framework is "custom"; otherwise
\* the framework's default.
C11_Precedence ==
    resolving.stage = "resolved" =>
        LET in == resolving.in IN
        resolving.command =
            IF in.profile # "" THEN in.profile
            ELSE IF in.useDocker /\ in.hasDockerCompose
            THEN "docker-compose up"
            ELSE IF in.useDocker /\ in.hasDockerfile
            THEN "docker build && docker run"
            ELSE IF in.framework = "custom" /\ in.customCommand # ""
            THEN in.customCommand
            ELSE DefaultCommand(in.framework, in.type)

\* ---- C12
C12_Cancel ==
    \A fl \in BagToSet(startFlows), killed \in BOOLEAN :
        (\/ PortGateFrontend(fl, FALSE, "Cancel", killed)
         \/ PortGateBackend(fl, FALSE, "Cancel", killed)) =>
            /\ startFlows' = Take(startFlows, fl)
            /\ sessions' = sessions
            /\ lastCommands' = lastCommands
            /\ stagger' = stagger

\* C12: when the user answers Cancel at the port prompt of either slot,
\* that call of startServers ends there: it creates no terminal, sets no
\* run timer and sends no command, and the sessions of an earlier startup
\* stay in the map, undisposed.
C12_CancelAbortsStartup == [][C12_Cancel]_vars

\* the backend port prompt of a second startup was answered Cancel while
\* both sessions of the first are running
C12_Witness ==
    /\ gateNoted = Note("portB", "Cancel")
    /\ startFlows = EmptyBag
    /\ BagCardinality(sessions) = 2
    /\ \A k \in Keys : /\ Has(sessions, k)
                       /\ Get(sessions, k).st = "open"
                       /\ Get(sessions, k).ran

\* ---- C13
C13_Free ==
    \A fl \in BagToSet(startFlows), selection \in PortChoices,
       killed \in BOOLEAN :
        /\ PortGateFrontend(fl, TRUE, selection, killed) =>
              startFlows' = Swap(startFlows, fl, Flow("portB", fl.cfg))
        /\ PortGateBackend(fl, TRUE, selection, killed) =>
              startFlows' = Swap(startFlows, fl, Flow("depF", fl.cfg))

C13_Ignore ==
    \A fl \in BagToSet(startFlows), killed \in BOOLEAN :
        /\ PortGateFrontend(fl, FALSE, "Ignore", killed) =>
              startFlows' = Swap(startFlows, fl, Flow("portB", fl.cfg))
        /\ PortGateBackend(fl, FALSE, "Ignore", killed) =>
              startFlows' = Swap(startFlows, fl, Flow("depF", fl.cfg))
        /\ PortGateFrontend(fl, FALSE, "Cancel", killed) =>
              startFlows' = Take(startFlows, fl)
        /\ PortGateBackend(fl, FALSE, "Cancel", killed) =>
              startFlows' = Take(startFlows, fl)

C13_Started ==
    \A fl \in BagToSet(startFlows), hasDeps \in BOOLEAN,
       selection \in DepChoices :
        (DepGateBackend(fl, hasDeps, selection)
            /\ checkDeps(hasDeps, selection)) =>
            /\ \A k \in Keys : /\ Has(sessions', k)
                               /\ Get(sessions', k).st = "open"
            /\ stagger' # <<>>
            /\ interval'.on
            /\ interval'.frontendPort = PortOf(fl.cfg, "Frontend")
            /\ interval'.backendPort = PortOf(fl.cfg, "Backend")
            /\ BagIn(Probe("frontend", PortOf(fl.cfg, "Frontend")), probes')
            /\ BagIn(Probe("backend", PortOf(fl.cfg, "Backend")), probes')

C13_Run ==
    /\ \A i \in 1..Len(stagger) :
          (RunFrontendTimer(i) /\ Has(sessions, "Frontend")) =>
              Get(sessions', "Frontend").ran
    /\ (RunBackendTimer /\ Has(sessions, "Backend")) =>
          Get(sessions', "Backend").ran

\* C13: a port gate consults the user exactly when the port is taken: with
\* the port free the startup goes on whatever the user would answer, with
\* the port taken it goes on after Ignore and ends after Cancel.  A startup
\* that passes its last gate creates both sessions, sets the timers that
\* run their commands, and starts the health monitor on the two slots'
\* ports.
C13_PortPromptAndIgnore ==
    [][C13_Free /\ C13_Ignore /\ C13_Started /\ C13_Run]_vars

\* a startup ignored a port conflict, passed its last gate, both commands
\* were run and the monitor watches ports 5173 and 8080
C13_Witness ==
    /\ gateNoted.ignored
    /\ gateNoted.at = "depB"
    /\ stagger = <<>>
    /\ \A k \in Keys : Has(sessions, k) /\ Get(sessions, k).ran
    /\ interval = [on |-> TRUE, frontendPort |-> 5173, backendPort |-> 8080,
                   live |-> 1]

\* ---- C14
\* C14: when the user chooses Kill Process and the kill fails, the startup
\* goes on to the next gate.
C14_FailedKillGoesOn ==
    [][\A fl \in BagToSet(startFlows) :
          /\ PortGateFrontend(fl, FALSE, "Kill Process", FALSE) =>
                startFlows' = Swap(startFlows, fl, Flow("portB", fl.cfg))
          /\ PortGateBackend(fl, FALSE, "Kill Process", FALSE) =>
                startFlows' = Swap(startFlows, fl, Flow("depF", fl.cfg))]_vars

\* ---- C15
C15_Same ==
    /\ \A fl \in BagToSet(startFlows), isAvailable \in BOOLEAN,
          killed \in BOOLEAN :
          /\ PortGateFrontend(fl, isAvailable, "dismissed", killed)
                <=> PortGateFrontend(fl, isAvailable, "Cancel", killed)
          /\ PortGateBackend(fl, isAvailable, "dismissed", killed)
                <=> PortGateBackend(fl, isAvailable, "Cancel", killed)
    /\ \A fl \in BagToSet(startFlows), hasDeps \in BOOLEAN :
          /\ DepGateFrontend(fl, hasDeps, "dismissed")
                <=> DepGateFrontend(fl, hasDeps, "Cancel")
          /\ DepGateBackend(fl, hasDeps, "dismissed")
                <=> DepGateBackend(fl, hasDeps, "Cancel")
    /\ StopAnswered("dismissed") <=> StopAnswered("Cancel")

\* C15: at the port prompt, the dependency prompt and the stop
\* confirmation, a prompt that resolves with no choice leads to the state
\* that Cancel leads to.
C15_DismissedIsCancel == [][C15_Same]_vars

\* the frontend dependency prompt of a startup was dismissed and the
\* startup ended with no session
C15_Witness ==
    /\ gateNoted.at = "depF"
    /\ gateNoted.how = "dismissed"
    /\ startFlows = EmptyBag
    /\ sessions = EmptyBag
    /\ stagger = <<>>

\* ---- C16
\* C16: a start command that finds a slot's path unconfigured, or no
\* workspace open, creates no session, sends no command and does not start
\* the health monitor.
C16_ConfigErrorHasNoEffect ==
    [][/\ \A autoRestart \in BOOLEAN, cfg \in CoreConfigs :
             StartCmd(autoRestart, cfg, TRUE, FALSE) =>
                 UNCHANGED <<sessions, lastCommands, interval, probes>>
       /\ \A fl \in BagToSet(startFlows) :
             ConfigureAnswered(fl) =>
                 UNCHANGED <<sessions, lastCommands, interval, probes>>]_vars

\* ---- C17
C17_Skip ==
    \A fl \in BagToSet(startFlows) :
        /\ DepGateFrontend(fl, FALSE, "Skip") =>
              startFlows' = Swap(startFlows, fl, Flow("depB", fl.cfg))
        /\ DepGateBackend(fl, FALSE, "Skip") =>
              \A k \in Keys : /\ Has(sessions', k)
                              /\ Get(sessions', k).st = "open"

C17_Install ==
    \A fl \in BagToSet(startFlows) :
        (\/ DepGateFrontend(fl, FALSE, "Install Now")
         \/ DepGateBackend(fl, FALSE, "Install Now")) =>
            /\ startFlows' = Take(startFlows, fl)
            /\ \E r \in BagToSet(sessions') :
                  /\ r.st = "open" /\ r.ran /\ r.key = ""
                  /\ sessions' = Put(sessions, r)
            /\ getActiveTerminals(sessions') = getActiveTerminals(sessions)
            /\ stagger' = stagger
            /\ lastCommands' = lastCommands

C17_Cancel ==
    \A fl \in BagToSet(startFlows) :
        (\/ DepGateFrontend(fl, FALSE, "Cancel")
         \/ DepGateBackend(fl, FALSE, "Cancel")) =>
            /\ startFlows' = Take(startFlows, fl)
            /\ sessions' = sessions
            /\ stagger' = stagger
            /\ lastCommands' = lastCommands

C17_State ==
    \A r \in BagToSet(sessions) : r.name = "Install" => r.key = ""

\* C17: at a dependency gate with the dependencies missing, Skip goes on
\* and the sessions are created; Install Now sends the install command to a
\* terminal of its own that is never in the provider's map and ends the
\* startup with no session created; Cancel ends the startup with no
\* session created for either slot.
C17_DependencyGate ==
    [](C17_State) /\ [][C17_Skip /\ C17_Install /\ C17_Cancel]_vars

\* Install Now was answered at the backend's dependency gate: the install
\* terminal is open, the startup is over and the map is empty
C17_Witness ==
    /\ gateNoted.at = "depB"
    /\ gateNoted.how = "Install Now"
    /\ startFlows = EmptyBag
    /\ BagIn(InstallTerminal, sessions)
    /\ getActiveTerminals(sessions) = {}
    /\ stagger = <<>>

\* ---- C18
C18_State ==
    \A i \in 1..Len(reported) :
        /\ reported[i].status \in {"Running", "Crashed"}
        /\ reported[i].status = "Running"
              <=> reported[i].outcome \in {"status200", "status500"}
        /\ reported[i].status = "Crashed"
              <=> reported[i].outcome \in {"refused", "timeout"}

C18_Step ==
    \A p \in BagToSet(probes) :
        (ProbeDone(p) /\ Len(reported) < MaxReports) =>
            /\ Len(reported') = Len(reported) + 1
            /\ reported'[Len(reported')].type = p.type

\* C18: every probe calls the subscriber once, with Running when the GET
\* got a response of any status, 500 included, and with Crashed when it
\* timed out or failed; never with Starting or None.
C18_RunningOrCrashed == [](C18_State) /\ [][C18_Step]_vars

\* a 500 from the frontend was reported Running and a timeout of the
\* backend Crashed
C18_Witness ==
    /\ Len(reported) = 2
    /\ reported[1].type = "frontend"
    /\ reported[1].outcome = "status500"
    /\ reported[1].status = "Running"
    /\ reported[2].type = "backend"
    /\ reported[2].outcome = "timeout"
    /\ reported[2].status = "Crashed"

\* ---- C19
\* C19: while the interval is cleared, a ping that ends calls the
\* subscriber no more.
C19_SilentAfterStop ==
    [][\A p \in BagToSet(probes) :
          (ProbeDone(p) /\ ~interval.on) => reported' = reported]_vars

\* ---- C20
\* C20: the stop command, run while sessions are active, leaves the health
\* monitor running until the user has confirmed and disposeAll has run.
C20_StopMonitoringAfterConfirm ==
    [][(StopCmd /\ getActiveTerminals(sessions) # {}) =>
          interval' = interval]_vars


\* ---- C21
\* the fall-back of getStartCommand, the same for both kinds of slot
GenericDefault(type) == "npm start"

\* C21: resolving a start command gives the custom command verbatim for
\* framework "custom" with a non-empty custom command, the generic default
\* for "custom" with an empty one and for every framework that is not a key
\* of the kind's table, and in every case a non-empty string.
C21_StartCommand ==
    resolving.stage = "resolved" =>
        LET in == resolving.in
            c  == resolving.startCommand
        IN  /\ c # ""
            /\ c # ObjectMember
            /\ (in.framework = "custom" /\ in.customCommand # "")
                   => c = in.customCommand
            /\ (in.framework = "custom" /\ in.customCommand = "")
                   => c = GenericDefault(in.type)
            /\ (in.framework # "custom"
                    /\ in.framework \notin TableKeys(in.type))
                   => c = GenericDefault(in.type)

\* the same for the frameworks that are no member of Object.prototype: holds
C21_OwnKeysOnly ==
    (resolving.stage = "resolved"
        /\ resolving.in.framework \notin InheritedKeys) =>
        LET in == resolving.in
            c  == resolving.startCommand
        IN  /\ c # ""
            /\ (in.framework = "custom" /\ in.customCommand # "")
                   => c = in.customCommand
            /\ (in.framework \notin TableKeys(in.type)
                    /\ ~(in.framework = "custom" /\ in.customCommand # ""))
                   => c = GenericDefault(in.type)


\* ---- C26
\* the probes of B aimed at port
ProbesAt(B, port) ==
    LET P(p) == p.port = port IN Count(B, P)

C26_State ==
    /\ interval.live <= 1
    /\ interval.on <=> interval.live = 1

C26_Step ==
    /\ \A cfg \in Configs :
          StartMonitoring(cfg) =>
              /\ interval'.on /\ interval'.live = 1
              /\ interval'.frontendPort = PortOf(cfg, "Frontend")
              /\ interval'.backendPort = PortOf(cfg, "Backend")
              /\ BagCardinality(probes') = BagCardinality(probes) + 2
              /\ \A k \in Keys :
                    ProbesAt(probes', PortOf(cfg, k))
                        = ProbesAt(probes, PortOf(cfg, k)) + 1
    /\ StopMonitoring => (~interval'.on /\ interval'.live = 0)

\* C26: every startMonitoring cancels the interval set before it and issues
\* one probe per port at once; at most one polling interval is alive at any
\* time, and none after stopMonitoring.
C26_OneInterval == [](C26_State) /\ [][C26_Step]_vars

\* monitoring was started again over a running interval: one interval, on
\* the new ports, and the new probes in flight
C26_Witness ==
    /\ interval.on /\ interval.live = 1
    /\ interval.frontendPort = PortOf("cfgB", "Frontend")
    /\ ProbesAt(probes, PortOf("cfgB", "Frontend")) = 1
    /\ Len(reported) > 0
    /\ reported[1].on


\* ---- C22
\* how a ping can end, by whether the port answers
OutcomesAt(health) ==
    IF health = "answering" THEN Outcomes ELSE {"refused", "timeout"}

\* the server behind slot t's port goes away for good
PortDown(t) ==
    /\ portHealth[t] = "answering"
    /\ portHealth' = [portHealth EXCEPT ![t] = "silent"]
    /\ UNCHANGED <<supVars, orchVars, monVars>>

\* the subscriber of onStatusChange is handed status for slot t
Heard(health, t, status) ==
    IF health[t] = "silent" /\ status = "Crashed"
    THEN [health EXCEPT ![t] = "reportedCrashed"]
    ELSE health

\* the ping of a probe of slot t ends and its status reaches the subscriber
ProbeEnds(t) ==
    \E p \in BagToSet(probes), outcome \in OutcomesAt(portHealth[t]) :
        /\ p.type = t
        /\ ProbeDone(p)
        /\ portHealth' = Heard(portHealth, t, StatusOf(ping(outcome)))
        /\ UNCHANGED <<resolving, stopNoted, gateNoted, reported>>

TickLive == Tick /\ UNCHANGED <<resolving, stopNoted, gateNoted, reported, portHealth>>

\* The monitor over ports that can stop answering.  The interval callback
\* runs every 5000 ms while the interval is set, and every ping ends (with a
\* response, an error or its 2000 ms timeout): both are weakly fair.
NextLive ==
    \/ \E cfg \in Configs :
          StartMonitoring(cfg)
              /\ UNCHANGED <<resolving, stopNoted, gateNoted, reported, portHealth>>
    \/ StopMonitoring /\ UNCHANGED <<resolving, stopNoted, gateNoted, reported, portHealth>>
    \/ TickLive
    \/ \E t \in Types : ProbeEnds(t)
    \/ \E t \in Types :
          PortDown(t) /\ UNCHANGED <<resolving, stopNoted, gateNoted, reported>>

FairLive ==
    /\ WF_vars(TickLive)
    /\ \A t \in Types : WF_vars(ProbeEnds(t))

SpecLive == Init /\ [][NextLive]_vars /\ FairLive

\* C22: while monitoring stays active, a slot whose port has stopped
\* answering for good is in the end reported Crashed to the subscriber.
C22_CrashReported ==
    \A t \in Types :
        (portHealth[t] = "silent" /\ interval.on)
            ~> (portHealth[t] = "reportedCrashed" \/ ~interval.on)

\* the frontend's port went silent under a running interval and Crashed
\* was reported for it
C22_Witness ==
    /\ interval.on
    /\ portHealth["frontend"] = "reportedCrashed"
    /\ portHealth["backend"] = "answering"


\* ---- C23
\* the terminals of B the provider has created: those in its map and those
\* it disposed of
Managed(B) ==
    LET P(r) == r.key # "" \/ r.st = "disposed" IN Count(B, P)

\* the gate a startup passes just before the gate at pc
GateBefore(pc) ==
    IF pc = "portB" THEN "portF"
    ELSE IF pc = "depF" THEN "portB"
    ELSE IF pc = "depB" THEN "depF"
    ELSE ""

\* a port gate that does not pass, a dependency gate that does not pass
PortGateFails(isAvailable, selection, killed) ==
    ~isAvailable /\ (selection \in {"Cancel", "dismissed"}
                        \/ (selection = "Kill Process" /\ ~killed))

DepGateFails(hasDeps, selection) == ~hasDeps /\ selection # "Skip"

\* a startup reaches a gate only from the gate before it, and the first
\* gate only with a valid configuration and an open workspace
C23_InOrder ==
    /\ \A fl \in BagToSet(startFlows') :
          CopiesIn(fl, startFlows') > CopiesIn(fl, startFlows) =>
              \/ fl.pc \in {"configure", "portF"}
              \/ /\ BagIn(Flow(GateBefore(fl.pc), fl.cfg), startFlows)
                 /\ startFlows' = Swap(startFlows,
                                       Flow(GateBefore(fl.pc), fl.cfg), fl)
    /\ \A autoRestart \in BOOLEAN, cfg \in Configs,
          configured \in BOOLEAN, workspace \in BOOLEAN :
          (StartCmd(autoRestart, cfg, configured, workspace)
              /\ CopiesIn(Flow("portF", cfg), startFlows')
                    > CopiesIn(Flow("portF", cfg), startFlows))
              => (configured /\ workspace)

\* sessions are created only by a startup that is at its last gate, and
\* that gate passes
C23_CreatedLast ==
    Managed(sessions') > Managed(sessions) =>
        \E fl \in BagToSet(startFlows) :
            /\ fl.pc = "depB"
            /\ startFlows' = Take(startFlows, fl)
            /\ \E hasDeps \in BOOLEAN, selection \in DepChoices :
                  /\ ~DepGateFails(hasDeps, selection)
                  /\ DepGateBackend(fl, hasDeps, selection)

\* a gate that fails ends its startup: no later gate, no session
C23_FailStops ==
    \A fl \in BagToSet(startFlows) :
        /\ \A isAvailable \in BOOLEAN, selection \in PortChoices,
              killed \in BOOLEAN :
              (PortGateFails(isAvailable, selection, killed)
                  /\ (\/ PortGateFrontend(fl, isAvailable, selection, killed)
                      \/ PortGateBackend(fl, isAvailable, selection, killed)))
                  => (/\ startFlows' = Take(startFlows, fl)
                      /\ Managed(sessions') = Managed(sessions))
        /\ \A hasDeps \in BOOLEAN, selection \in DepChoices :
              (DepGateFails(hasDeps, selection)
                  /\ (\/ DepGateFrontend(fl, hasDeps, selection)
                      \/ DepGateBackend(fl, hasDeps, selection)))
                  => (/\ startFlows' = Take(startFlows, fl)
                      /\ Managed(sessions') = Managed(sessions))

\* C23: no session is created before the configuration check, the frontend
\* and backend port gates and the frontend and backend dependency gates
\* have passed, in that order; a gate that fails ends the startup before any
\* later gate prompts.
C23_GatesInOrder == [][C23_InOrder /\ C23_CreatedLast /\ C23_FailStops]_vars

\* a startup went through all its gates and has just created both sessions
C23_Witness ==
    /\ gateNoted.at = "depB"
    /\ gateNoted.how \in {"present", "Skip"}
    /\ startFlows = EmptyBag
    /\ Has(sessions, "Frontend") /\ Has(sessions, "Backend")
    /\ ~Get(sessions, "Frontend").ran /\ ~Get(sessions, "Backend").ran
    /\ Len(stagger) = 1 /\ stagger[1].frontendPending


\* ---- C24
\* a startup creates both sessions in one step and sends nothing in it; its
\* backend command is sent only after its frontend command
C24_Step ==
    /\ Len(stagger') > Len(stagger) =>
          /\ Has(sessions', "Frontend") /\ Has(sessions', "Backend")
          /\ ~Get(sessions', "Frontend").ran /\ ~Get(sessions', "Backend").ran
          /\ stagger'[Len(stagger')].frontendPending
          /\ lastCommands' = lastCommands
    /\ \A i \in 1..Len(stagger) :
          RunFrontendTimer(i) =>
              /\ Len(stagger') = Len(stagger)
              /\ ~stagger'[i].frontendPending
              /\ lastCommands'["Backend"] = lastCommands["Backend"]
    /\ RunBackendTimer =>
          /\ ~Head(stagger).frontendPending
          /\ stagger' = Tail(stagger)

\* C24: a startup creates both sessions first and then sends the frontend
\* command strictly before the backend command.
C24_Staggered == [][C24_Step]_vars

\* both sessions exist, the frontend has its command, the backend not yet
C24_Witness ==
    /\ Len(stagger) = 1 /\ ~stagger[1].frontendPending
    /\ Has(sessions, "Frontend") /\ Has(sessions, "Backend")
    /\ Get(sessions, "Frontend").ran
    /\ ~Get(sessions, "Backend").ran
    /\ lastCommands["Frontend"] # NoCmd
    /\ lastCommands["Backend"] = NoCmd


\* ------------------------------------ startups against backoff restarts

\* what the startups and restarts below leave alone
unwatched == <<resolving, stopNoted, gateNoted, reported, portHealth>>

\* The start command with auto-restart on, over free ports and installed
\* dependencies, so that every startup creates its sessions; the run timers,
\* the host's close events, the backoff callbacks and the monitor.
NextRace ==
    \/ \E cfg \in CoreConfigs :
          StartCmd(TRUE, cfg, TRUE, TRUE) /\ UNCHANGED unwatched
    \/ \E fl \in BagToSet(startFlows) :
          PortGateFrontend(fl, TRUE, "Ignore", FALSE) /\ UNCHANGED unwatched
    \/ \E fl \in BagToSet(startFlows) :
          PortGateBackend(fl, TRUE, "Ignore", FALSE) /\ UNCHANGED unwatched
    \/ \E fl \in BagToSet(startFlows) :
          DepGateFrontend(fl, TRUE, "Skip") /\ UNCHANGED unwatched
    \/ \E fl \in BagToSet(startFlows) :
          DepGateBackend(fl, TRUE, "Skip") /\ UNCHANGED unwatched
    \/ \E i \in 1..Len(stagger) : RunFrontendTimer(i) /\ UNCHANGED unwatched
    \/ RunBackendTimer /\ UNCHANGED unwatched
    \/ \E r \in BagToSet(sessions) :
          HostClose(r) /\ UNCHANGED <<monVars, unwatched>>
    \/ \E r \in BagToSet(sessions) :
          CloseDelivered(r) /\ UNCHANGED <<monVars, unwatched>>
    \/ \E name \in Keys :
          RestartFire(name) /\ UNCHANGED <<monVars, unwatched>>
    \/ Tick /\ UNCHANGED unwatched
    \/ \E p \in BagToSet(probes) : ProbeDone(p) /\ UNCHANGED unwatched

InitRace == Init /\ autoRestartEnabled = TRUE

SpecRace == InitRace /\ [][NextRace]_vars


\* ---- C28
\* C28: the close event of a session that createTerminal replaced is not a
\* crash: it removes no session from the map, leaves the crash counts alone
\* and schedules no restart.
C28_ReplacedCloseIsQuiet ==
    [][\A r \in BagToSet(sessions) :
          (CloseDelivered(r) /\ r.by = "replace") =>
              /\ \A k \in Keys :
                    Has(sessions, k) =>
                        (Has(sessions', k)
                            /\ Get(sessions', k) = Get(sessions, k))
              /\ restartCounts' = restartCounts
              /\ restartTimers' = restartTimers
              /\ crashOutcomes' = crashOutcomes]_vars

\* the close of a replaced Frontend session has been delivered with
\* auto-restart on and a restart record at hand: the new session is there,
\* nothing was counted or scheduled
C28_Witness ==
    /\ autoRestartEnabled
    /\ lastCommands["Frontend"] # NoCmd
    /\ Has(sessions, "Frontend")
    /\ ~Get(sessions, "Frontend").ran
    /\ DisposedBy(sessions, "replace") = 0
    /\ restartCounts["Frontend"] = 0
    /\ restartTimers["Frontend"] = <<>>
    /\ crashOutcomes["Frontend"] = <<>>


\* ---- C29
\* C29: a session is sent at most one command, however startups, their run
\* timers and the backoff callbacks interleave: no run timer sends a command
\* to a session that already has one.
C29_OneCommandPerSession ==
    [][/\ \A i \in 1..Len(stagger) :
             (RunFrontendTimer(i) /\ Has(sessions, "Frontend"))
                 => ~Get(sessions, "Frontend").ran
       /\ (RunBackendTimer /\ Has(sessions, "Backend"))
             => ~Get(sessions, "Backend").ran]_vars

\* ---- C30
\* C30: a backoff callback of key k leaves alone the session a startup has
\* created under k since the crash: it stays registered and undisposed, and
\* the command of the older restart record is not sent.
C30_RestartSparesNewSession ==
    [][\A k \in Keys :
          (RestartFire(k) /\ Has(sessions, k) /\ ~Get(sessions, k).ran) =>
              /\ BagIn(Get(sessions, k), sessions')
              /\ lastCommands' = lastCommands]_vars


\* ---- C27
\* C27: a start command whose startup ends at a port gate or a dependency
\* gate (Cancel, a dismissed prompt, Install Now, a port that could not be
\* freed) does not start the health monitor.
C27_NoMonitorWhenAborted ==
    [][\A fl \in BagToSet(startFlows) :
          /\ \A isAvailable \in BOOLEAN, selection \in PortChoices,
                killed \in BOOLEAN :
                (PortGateFails(isAvailable, selection, killed)
                    /\ (\/ PortGateFrontend(fl, isAvailable, selection, killed)
                        \/ PortGateBackend(fl, isAvailable, selection, killed)))
                    => UNCHANGED <<interval, probes>>
          /\ \A hasDeps \in BOOLEAN, selection \in DepChoices :
                (DepGateFails(hasDeps, selection)
                    /\ (\/ DepGateFrontend(fl, hasDeps, selection)
                        \/ DepGateBackend(fl, hasDeps, selection)))
                    => UNCHANGED <<interval, probes>>]_vars


\* ---- C25
\* the key whose restarts are followed below
ReplayKeys == {"Frontend"}

\* One key of the provider, created and run under either configuration, with
\* auto-restart on: the host's close events and the backoff callbacks.
NextReplay ==
    \/ \E name \in ReplayKeys, cfg \in Configs :
          Start(name, cfg) /\ UNCHANGED <<stopNoted, offstage>>
    \/ \E name \in ReplayKeys, cfg \in Configs :
          Run(name, cfg) /\ UNCHANGED <<stopNoted, offstage>>
    \/ \E r \in BagToSet(sessions) :
          HostClose(r) /\ UNCHANGED <<stopNoted, offstage>>
    \/ \E r \in BagToSet(sessions) :
          CloseDelivered(r) /\ UNCHANGED <<stopNoted, offstage>>
    \/ \E name \in ReplayKeys :
          RestartFire(name) /\ UNCHANGED <<stopNoted, offstage>>

SpecReplay == InitRace /\ [][NextReplay]_vars

\* run on an active session records its command with the session's working
\* directory and kind
C25_Recorded ==
    \A name \in ReplayKeys, cfg \in Configs :
        (Run(name, cfg) /\ Has(sessions, name)) =>
            lastCommands'[name] =
                [command |-> CommandOf(cfg, name),
                 cwd |-> Get(sessions, name).cwd,
                 type |-> Get(sessions, name).type]

\* the restart of key k uses restart record rec
RestartedWith(k, rec) ==
    /\ Has(sessions', k)
    /\ Get(sessions', k).st = "open"
    /\ Get(sessions', k).cwd = rec.cwd
    /\ Get(sessions', k).type = rec.type
    /\ Get(sessions', k).ran
    /\ lastCommands'[k] = rec

\* C25: run on an active session records {command, working directory, kind}
\* for its key; an automatic restart creates the session again under that
\* key with the recorded working directory and kind and sends it the command
\* of the most recent run for the key.
C25_RestartReplaysLastRun ==
    [][/\ C25_Recorded
       /\ \A k \in ReplayKeys :
             (RestartFire(k) /\ lastCommands[k] # NoCmd)
                 => RestartedWith(k, lastCommands[k])]_vars

\* what holds instead: the restart uses the record as it was when the close
\* was handled
C25_ReplaysRecordAtClose ==
    [][/\ C25_Recorded
       /\ \A k \in ReplayKeys :
             RestartFire(k)
                 => RestartedWith(k, Head(restartTimers[k]).lastCmd)]_vars

====
